---------------------------- MODULE Spec2Model ----------------------------
(***************************************************************************)
(* Model of src/src/main.rs: the Danish compound numeral namer.            *)
(*                                                                         *)
(* Representation.                                                         *)
(*  - A Rust String is a sequence of lexemes: every string constant of     *)
(*    the source is one lexeme, the separators " " and "," are lexemes of  *)
(*    their own, format!/push_str is \o and String::pop removes the last   *)
(*    (one-character) lexeme.                                              *)
(*  - An i128 is a record [neg, mag]: its sign and its magnitude as        *)
(*    little-endian limbs in base 10^9 (TLC integers are 32 bits wide).    *)
(*    Zero is [neg |-> FALSE, mag |-> <<>>]; the top limb is never 0.      *)
(*  - A panic is the lexeme PANIC inside the result: it survives every     *)
(*    concatenation, so a result holding it stands for an aborted call.    *)
(***************************************************************************)
EXTENDS Integers, Sequences, FiniteSets

VARIABLES input, overflow_checks, pc, self, number, minus_string, n,
          digits_by_thousands, strings, decimals, ret, out

vars == <<input, overflow_checks, pc, self, number, minus_string, n,
          digits_by_thousands, strings, decimals, ret, out>>

-----------------------------------------------------------------------------
(* DANISH LANGUAGE STRINGS, main.rs:11-72 *)

AND == "og"
PLURAL_SUFFIX == "er"
MINUS == "minus"
DECIMAL_SEPERATOR == "komma"
NEUTER_ONE == "et"
EMPH_ONE == "Ã©n"
HUNDRED == "hundrede"

NUMBER_NAMES ==
  << <<"nul", "en", "to", "tre", "fire", "fem", "seks", "syv", "otte", "ni">>,
     <<"ti", "elleve", "tolv", "tretten", "fjorten", "femten", "seksten",
       "sytten", "atten", "nitten">>,
     <<"tyve", "tredive", "fyrre", "halvtreds", "tres", "halvfjerds", "firs",
       "halvfems">>,
     <<"tusind", "million", "milliard", "billion", "billiard", "trillion",
       "trilliard", "kvadrillion", "kvadrilliard", "kvintillion",
       "kvintilliard", "sekstillion">> >>

PANIC == "<panic>"

\* Option<T>: None is <<>>, Some(v) is <<v>>
None == <<>>
Some(v) == <<v>>

\* NUMBER_NAMES[list][idx] with Rust's 0-based, bounds-checked indexing.
Names(list, idx) ==
  IF list \in 0..(Len(NUMBER_NAMES) - 1)
       /\ idx \in 0..(Len(NUMBER_NAMES[list + 1]) - 1)
  THEN NUMBER_NAMES[list + 1][idx + 1]
  ELSE PANIC

Panicked(s) == \E k \in 1..Len(s) : s[k] = PANIC

-----------------------------------------------------------------------------
(* i128 arithmetic on limbs *)

LimbBase == 1000 * 1000 * 1000

\* i128::MAX = 170141183460469231731687303715884105727 = 2^127 - 1
I128_MAX_MAG == <<884105727, 687303715, 469231731, 141183460, 170>>
\* |i128::MIN| = 170141183460469231731687303715884105728 = 2^127
I128_MIN_MAG == <<884105728, 687303715, 469231731, 141183460, 170>>
I128_MIN == [neg |-> TRUE, mag |-> I128_MIN_MAG]
I128_MAX == [neg |-> FALSE, mag |-> I128_MAX_MAG]

RECURSIVE MagLeq(_, _)
\* a <= b on normalised little-endian magnitudes
MagLeq(a, b) ==
  IF Len(a) # Len(b) THEN Len(a) < Len(b)
  ELSE IF Len(a) = 0 THEN TRUE
  ELSE IF a[Len(a)] # b[Len(b)] THEN a[Len(a)] < b[Len(b)]
  ELSE MagLeq(SubSeq(a, 1, Len(a) - 1), SubSeq(b, 1, Len(b) - 1))

MagLess(a, b) == a # b /\ MagLeq(a, b)

IsI128(x) ==
  /\ (x.mag # <<>> => x.mag[Len(x.mag)] # 0)
  /\ \A k \in 1..Len(x.mag) : x.mag[k] \in 0..(LimbBase - 1)
  /\ (x.mag = <<>> => ~x.neg)
  /\ MagLeq(x.mag, IF x.neg THEN I128_MIN_MAG ELSE I128_MAX_MAG)

\* an i128 holding the small non-negative value v (v < 10^9)
FromSmall(v) == [neg |-> FALSE, mag |-> IF v = 0 THEN <<>> ELSE <<v>>]

\* number < k, for a literal 0 < k <= 10^9
LessThan(x, k) == x.neg \/ Len(x.mag) = 0 \/ (Len(x.mag) = 1 /\ x.mag[1] < k)

\* number == k, for a literal 0 < k < 10^9
Equals(x, k) == ~x.neg /\ x.mag = <<k>>

\* n > 0
Positive(x) == ~x.neg /\ x.mag # <<>>

\* `number as usize`: the low 64 bits of the two's complement pattern. It is
\* applied (main.rs:104) to a number below 10 only: to 0, 2..9, or to
\* i128::MIN after a wrapped negation, whose low 64 bits are all zero.
AsUsize(x) ==
  IF x.mag = <<>> \/ x = I128_MIN THEN 0 ELSE x.mag[1]

\* the value of a number in 0..999 as a machine integer
Small(x) == IF x.mag = <<>> THEN 0 ELSE x.mag[1]

\* number *= -1 (main.rs:96). -i128::MIN is not an i128: the multiplication
\* panics when overflow checks are compiled in (debug profile) and wraps
\* back to i128::MIN when they are not (release profile).
MulMinusOne(x, checks) ==
  IF x = I128_MIN
  THEN [panic |-> checks, value |-> I128_MIN]
  ELSE [panic |-> FALSE,
        value |-> [neg |-> (~x.neg /\ x.mag # <<>>), mag |-> x.mag]]

RECURSIVE StripZeros(_)
StripZeros(m) ==
  IF m # <<>> /\ m[Len(m)] = 0 THEN StripZeros(SubSeq(m, 1, Len(m) - 1)) ELSE m

\* n % 1000 for n >= 0: 1000 divides the limb base
Mod1000(x) == IF x.mag = <<>> THEN 0 ELSE x.mag[1] % 1000

\* n / 1000 for n >= 0: long division, each limb takes the remainder of the
\* limb above it
Div1000(x) ==
  LET m == x.mag
      q == [k \in 1..Len(m) |->
              (m[k] \div 1000)
              + (IF k < Len(m) THEN (m[k + 1] % 1000) * (1000 * 1000) ELSE 0)]
  IN [neg |-> FALSE, mag |-> StripZeros(q)]

\* m * 1000 + g, for 0 <= g < 1000 (used to build inputs and to sum groups)
MulAdd1000(m, g) ==
  LET carry(k) == IF k = 1 THEN g ELSE m[k - 1] \div (1000 * 1000)
      low == [k \in 1..Len(m) |-> (m[k] % (1000 * 1000)) * 1000 + carry(k)]
      top == IF m = <<>> THEN g ELSE m[Len(m)] \div (1000 * 1000)
  IN StripZeros(Append(low, top))

RECURSIVE GroupsValue(_)
\* sum of groups[i] * 1000^i, groups least-significant first
GroupsValue(groups) ==
  IF groups = <<>> THEN <<>>
  ELSE MulAdd1000(GroupsValue(Tail(groups)), Head(groups))

-----------------------------------------------------------------------------
(* impl DanishCompoundNumeral for i128, main.rs:87-194 *)

\* main.rs:83-85, on a number in 0..999
nth_digit(v, k) == (v \div (10 ^ (k - 1))) % 10

\* main.rs:102-139: the name of a number for which `number < 1000` holds
Below1000(num) ==
  IF LessThan(num, 10)
  THEN <<IF Equals(num, 1) THEN NEUTER_ONE ELSE Names(0, AsUsize(num))>>
  ELSE
    LET hundreds == nth_digit(Small(num), 3)
        tens == nth_digit(Small(num), 2)
        ones == nth_digit(Small(num), 1)
    IN (IF hundreds > 0
        THEN <<IF hundreds = 1 THEN NEUTER_ONE ELSE Names(0, hundreds),
               " ", HUNDRED>>
        ELSE <<>>)
       \o (IF tens + ones > 0 /\ hundreds > 0 THEN <<" ", AND, " ">> ELSE <<>>)
       \o (IF tens = 0
           THEN (IF ones = 0 THEN <<>>
                 ELSE IF ones = 1 THEN <<EMPH_ONE>>
                 ELSE <<Names(0, ones)>>)
           ELSE IF tens = 1 THEN <<Names(1, ones)>>
           ELSE IF ones = 0 THEN <<Names(2, tens - 2)>>
           ELSE <<Names(0, ones), AND, Names(2, tens - 2)>>)

\* LoopBody with the two statements of the body swapped: the division first
LoopBody_DivideFirst(st) ==
  [n |-> Div1000(st.n),
   digits_by_thousands |-> Append(st.digits_by_thousands, Mod1000(Div1000(st.n)))]

\* main.rs:154-157: one iteration of `while n > 0`
LoopBody(st) ==
  [n |-> Div1000(st.n),
   digits_by_thousands |-> Append(st.digits_by_thousands, Mod1000(st.n))]

RECURSIVE WhileLoop(_)
\* main.rs:152-157: the whole loop
WhileLoop(st) == IF Positive(st.n) THEN WhileLoop(LoopBody(st)) ELSE st

\* main.rs:170: digits_by_thousands.get(1).unwrap_or(&1)
GetOr(v, idx, default) == IF idx + 1 \in 1..Len(v) THEN v[idx + 1] ELSE default

\* InjectAnd without the test for the first group
InjectAnd_NoIndex(i, digits, dbt, string) ==
  IF digits < 100 \/ GetOr(dbt, 1, 1) = 0
  THEN <<AND, " ">> \o (IF digits = 1 THEN <<EMPH_ONE>> ELSE string)
  ELSE string

\* InjectAnd with the bound of 100 included
InjectAnd_Inclusive(i, digits, dbt, string) ==
  IF i = 0 /\ (digits <= 100 \/ GetOr(dbt, 1, 1) = 0)
  THEN <<AND, " ">> \o (IF digits = 1 THEN <<EMPH_ONE>> ELSE string)
  ELSE string

\* main.rs:166-173: the "and" injected before the first group
InjectAnd(i, digits, dbt, string) ==
  IF i = 0 /\ (digits < 100 \/ GetOr(dbt, 1, 1) = 0)
  THEN <<AND, " ">> \o (IF digits = 1 THEN <<EMPH_ONE>> ELSE string)
  ELSE string

\* FixGender without the test for a group of exactly 1
FixGender_AnyValue(i, digits, string) ==
  IF i > 1 THEN <<Names(0, 1)>> ELSE string

\* main.rs:175-177: only "thousands" is neuter gender
FixGender(i, digits, string) ==
  IF i > 1 /\ digits = 1 THEN <<Names(0, 1)>> ELSE string

\* Suffix that pluralizes the thousands as well
Suffix_Thousands(i, digits) == IF i > 0 /\ digits > 1 THEN <<PLURAL_SUFFIX>> ELSE <<>>

\* main.rs:182: the plural suffix of an order of magnitude
Suffix(i, digits) == IF i > 1 /\ digits > 1 THEN <<PLURAL_SUFFIX>> ELSE <<>>

\* main.rs:179-184: the string pushed for group i
WithMagnitude(i, digits, string) ==
  IF i > 0
  THEN string \o <<" ", Names(3, i - 1)>> \o Suffix(i, digits)
  ELSE string

\* main.rs:166-184: what the loop body does to the name `string` of group i
GroupString(i, digits, dbt, string) ==
  WithMagnitude(i, digits, FixGender(i, digits, InjectAnd(i, digits, dbt, string)))

RECURSIVE Reverse(_)
\* main.rs:188
Reverse(v) == IF v = <<>> THEN <<>> ELSE Append(Reverse(Tail(v)), Head(v))

RECURSIVE Join(_, _)
\* main.rs:192: strings.join(sep)
Join(v, sep) ==
  IF v = <<>> THEN <<>>
  ELSE IF Len(v) = 1 THEN v[1]
  ELSE v[1] \o sep \o Join(Tail(v), sep)

\* Prologue whose minus_string lacks the space
Prologue_NoSpace(slf, checks) ==
  LET negative == slf.neg
      product == MulMinusOne(slf, checks)
  IN [panic |-> negative /\ product.panic,
      number |-> IF negative THEN product.value ELSE slf,
      minus_string |-> IF negative THEN <<MINUS>> ELSE <<>>]

\* main.rs:95-97: [number, minus_string] after the sign is taken off
Prologue(slf, checks) ==
  LET negative == slf.neg
      product == MulMinusOne(slf, checks)
  IN [panic |-> negative /\ product.panic,
      number |-> IF negative THEN product.value ELSE slf,
      minus_string |-> IF negative THEN <<MINUS, " ">> ELSE <<>>]

RECURSIVE danish_compound_numeral_name(_, _)
RECURSIVE ForLoop_NoSkip(_, _, _, _)
\* ForLoop without the `continue` on a group of zero
ForLoop_NoSkip(i, dbt, acc, checks) ==
  IF i >= Len(dbt) THEN acc
  ELSE
    LET digits == dbt[i + 1]
    IN ForLoop_NoSkip(i + 1, dbt,
         Append(acc,
           GroupString(i, digits, dbt,
             danish_compound_numeral_name(FromSmall(digits), checks))),
         checks)

RECURSIVE ForLoop(_, _, _, _)
\* main.rs:159-185: the groups from index i on, `acc` the strings pushed so far
ForLoop(i, dbt, acc, checks) ==
  IF i >= Len(dbt) THEN acc
  ELSE
    LET digits == dbt[i + 1]
    IN IF digits = 0
       THEN ForLoop(i + 1, dbt, acc, checks)
       ELSE ForLoop(i + 1, dbt,
              Append(acc,
                GroupString(i, digits, dbt,
                  danish_compound_numeral_name(FromSmall(digits), checks))),
              checks)

\* main.rs:159-192: from the list of groups to the returned string
Assemble(dbt, minus, checks) ==
  minus \o Join(Reverse(ForLoop(0, dbt, <<>>, checks)), <<" ">>)

\* main.rs:90-193: <i128 as DanishCompoundNumeral>::danish_compound_numeral_name
danish_compound_numeral_name(slf, checks) ==
  LET p == Prologue(slf, checks)
  IN IF p.panic THEN <<PANIC>>
     ELSE IF LessThan(p.number, 1000)
     THEN p.minus_string \o Below1000(p.number)
     ELSE Assemble(
            WhileLoop([n |-> p.number, digits_by_thousands |-> <<>>]).digits_by_thousands,
            p.minus_string, checks)

RECURSIVE CallDepth(_)
\* main.rs:99,160-164: how deep the calls of the function on itself nest
CallDepth(slf) ==
  LET p == Prologue(slf, FALSE)
  IN IF LessThan(p.number, 1000) THEN 0
     ELSE LET dbt == WhileLoop([n |-> p.number,
                                digits_by_thousands |-> <<>>]).digits_by_thousands
              called == {k \in 1..Len(dbt) : dbt[k] # 0}
              depths == {CallDepth(FromSmall(dbt[k])) : k \in called}
          IN 1 + (CHOOSE d \in depths \cup {0} : \A e \in depths : e <= d)

-----------------------------------------------------------------------------
(* impl DanishCompoundNumeral for f64, main.rs:196-227 *)

(***************************************************************************)
(* An f64 is a record [neg, int, frac]: the sign bit, the integer part of  *)
(* the magnitude and the digits after the point of its shortest decimal    *)
(* text (no trailing zero; <<>> for a whole number).                       *)
(***************************************************************************)

DIGIT_CHARS == <<"0", "1", "2", "3", "4", "5", "6", "7", "8", "9">>

RECURSIVE IntChars(_)
\* the decimal digits of a non-negative integer, as characters
IntChars(v) ==
  IF v < 10 THEN <<DIGIT_CHARS[v + 1]>>
  ELSE Append(IntChars(v \div 10), DIGIT_CHARS[(v % 10) + 1])

\* main.rs:201: number.to_string(), f64's Display
to_string(x) ==
  (IF x.neg THEN <<"-">> ELSE <<>>)
  \o IntChars(x.int)
  \o (IF x.frac = <<>> THEN <<>>
      ELSE <<".">> \o [k \in 1..Len(x.frac) |-> DIGIT_CHARS[x.frac[k] + 1]])

\* main.rs:203: number.floor() as i128
FloorAsI128(x) ==
  LET v == IF x.neg /\ x.frac # <<>> THEN x.int + 1 ELSE x.int
  IN [neg |-> x.neg /\ v # 0, mag |-> IF v = 0 THEN <<>> ELSE <<v>>]

RECURSIVE Split(_, _)
\* main.rs:205: string.split(c).collect()
Split(string, c) ==
  IF \A k \in 1..Len(string) : string[k] # c THEN <<string>>
  ELSE LET at == CHOOSE k \in 1..Len(string) :
                   string[k] = c /\ \A j \in 1..(k - 1) : string[j] # c
       IN <<SubSeq(string, 1, at - 1)>>
          \o Split(SubSeq(string, at + 1, Len(string)), c)

\* main.rs:206: number_split.get(1)
Get(v, idx) == IF idx + 1 \in 1..Len(v) THEN Some(v[idx + 1]) ELSE None

\* main.rs:213: decimal_string.to_digit(10).unwrap() as usize
ToDigit(c) ==
  IF \E d \in 0..9 : DIGIT_CHARS[d + 1] = c
  THEN <<Names(0, CHOOSE d \in 0..9 : DIGIT_CHARS[d + 1] = c)>>
  ELSE <<PANIC>>

RECURSIVE PushDecimals(_)
\* main.rs:208-215: decimals_string after the loop over the characters
PushDecimals(chars) ==
  IF chars = <<>> THEN <<>>
  ELSE ToDigit(Head(chars)) \o <<",", " ">> \o PushDecimals(Tail(chars))

\* main.rs:218-219: String::pop
Pop(string) == IF string = <<>> THEN <<>> ELSE SubSeq(string, 1, Len(string) - 1)

\* Decimals with one pop only
Decimals_OnePop(before_decimal_name, decs) ==
  IF decs # None
  THEN before_decimal_name \o <<" ", DECIMAL_SEPERATOR, " ">>
       \o Pop(PushDecimals(decs[1]))
  ELSE before_decimal_name

\* main.rs:207-225: the returned string, from the name of the integer part
Decimals(before_decimal_name, decs) ==
  IF decs # None
  THEN before_decimal_name \o <<" ", DECIMAL_SEPERATOR, " ">>
       \o Pop(Pop(PushDecimals(decs[1])))
  ELSE before_decimal_name

\* main.rs:199-226: <f64 as DanishCompoundNumeral>::danish_compound_numeral_name
f64_danish_compound_numeral_name(x, checks) ==
  Decimals(danish_compound_numeral_name(FloorAsI128(x), checks),
           Get(Split(to_string(x), "."), 1))

-----------------------------------------------------------------------------
(* The inputs *)

\* how many of the lowest thousand-groups of an integer input vary freely
MaxLow == 2
\* how many digits after the point a floating-point input has at most
MaxFracLen == 2

\* an i128 has at most one group more than the ladder has magnitudes
MaxGroups == Len(NUMBER_NAMES[4]) + 1

\* the values of a top group and of a low group
TopVals == {1, 2, 21, 101, 999}
LowVals == {0, 1, 21, 100}

\* Group lists, least-significant first: the MaxLow lowest groups free, zero
\* groups above them, a non-zero top group.
GroupLists ==
  {[k \in 1..len |->
      IF k = len THEN top ELSE IF k <= MaxLow THEN low[k] ELSE 0] :
    len \in 2..MaxGroups, top \in TopVals, low \in [1..MaxLow -> LowVals]}

Magnitudes ==
  {<<v>> : v \in 1..999}
  \cup {GroupsValue(g) : g \in GroupLists}
  \cup {GroupsValue(<<461, 23, 7>>), I128_MAX_MAG}

I128Inputs ==
  {x \in [neg : BOOLEAN, mag : Magnitudes] : IsI128(x)}
  \cup {FromSmall(0), I128_MIN}

FracDigits ==
  UNION {{f \in [1..len -> 0..9] : f[len] # 0} : len \in 1..MaxFracLen}
  \cup {<<>>}

F64Inputs == [neg : BOOLEAN, int : {0, 3, 42, 1000}, frac : FracDigits]

Inputs ==
  {[kind |-> "i128", val |-> x] : x \in I128Inputs}
  \cup {[kind |-> "f64", val |-> x] : x \in F64Inputs}

-----------------------------------------------------------------------------
(* The calls as a state machine *)

Init ==
  /\ input \in Inputs
  /\ overflow_checks \in BOOLEAN
  /\ pc = "main"
  /\ self = FromSmall(0)
  /\ number = FromSmall(0)
  /\ minus_string = <<>>
  /\ n = FromSmall(0)
  /\ digits_by_thousands = <<>>
  /\ strings = <<>>
  /\ decimals = None
  /\ ret = <<>>
  /\ out = <<>>

\* a caller names an integer
CallI128 ==
  /\ pc = "main"
  /\ input.kind = "i128"
  /\ self' = input.val
  /\ pc' = "entry"
  /\ UNCHANGED <<input, overflow_checks, number, minus_string, n,
                 digits_by_thousands, strings, decimals, ret, out>>

\* main.rs:199-206: the integer part and the decimals of a float
CallF64 ==
  /\ pc = "main"
  /\ input.kind = "f64"
  /\ self' = FloorAsI128(input.val)
  /\ decimals' = Get(Split(to_string(input.val), "."), 1)
  /\ pc' = "entry"
  /\ UNCHANGED <<input, overflow_checks, number, minus_string, n,
                 digits_by_thousands, strings, ret, out>>

\* main.rs:91-141: the sign, and the return of a number below 1000
Entry ==
  /\ pc = "entry"
  /\ LET p == Prologue(self, overflow_checks)
     IN IF p.panic
        THEN /\ pc' = "panicked"
             /\ ret' = <<PANIC>>
             /\ UNCHANGED <<number, minus_string, n>>
        ELSE /\ number' = p.number
             /\ minus_string' = p.minus_string
             /\ IF LessThan(p.number, 1000)
                THEN /\ ret' = p.minus_string \o Below1000(p.number)
                     /\ pc' = IF Panicked(ret') THEN "panicked" ELSE "returned"
                     /\ UNCHANGED n
                ELSE /\ n' = p.number
                     /\ pc' = "while"
                     /\ UNCHANGED ret
  /\ UNCHANGED <<input, overflow_checks, self, digits_by_thousands, strings,
                 decimals, out>>

\* main.rs:154-157: one iteration of the decomposition
WhileStep ==
  /\ pc = "while"
  /\ Positive(n)
  /\ LET st == LoopBody([n |-> n, digits_by_thousands |-> digits_by_thousands])
     IN /\ n' = st.n
        /\ digits_by_thousands' = st.digits_by_thousands
  /\ UNCHANGED <<input, overflow_checks, pc, self, number, minus_string,
                 strings, decimals, ret, out>>

\* main.rs:159-185: the decomposition is over, every group is named
ForGroups ==
  /\ pc = "while"
  /\ ~Positive(n)
  /\ strings' = ForLoop(0, digits_by_thousands, <<>>, overflow_checks)
  /\ pc' = "join"
  /\ UNCHANGED <<input, overflow_checks, self, number, minus_string, n,
                 digits_by_thousands, decimals, ret, out>>

\* main.rs:187-192
JoinStrings ==
  /\ pc = "join"
  /\ ret' = minus_string \o Join(Reverse(strings), <<" ">>)
  /\ pc' = IF Panicked(ret') THEN "panicked" ELSE "returned"
  /\ UNCHANGED <<input, overflow_checks, self, number, minus_string, n,
                 digits_by_thousands, strings, decimals, out>>

\* the integer's name goes to the caller
ReturnI128 ==
  /\ pc = "returned"
  /\ input.kind = "i128"
  /\ out' = ret
  /\ pc' = "done"
  /\ UNCHANGED <<input, overflow_checks, self, number, minus_string, n,
                 digits_by_thousands, strings, decimals, ret>>

\* main.rs:207-225: the decimals are named after the integer part
ReturnF64 ==
  /\ pc = "returned"
  /\ input.kind = "f64"
  /\ out' = Decimals(ret, decimals)
  /\ pc' = IF Panicked(out') THEN "panicked" ELSE "done"
  /\ UNCHANGED <<input, overflow_checks, self, number, minus_string, n,
                 digits_by_thousands, strings, decimals, ret>>

Next ==
  \/ CallI128
  \/ CallF64
  \/ Entry
  \/ WhileStep
  \/ ForGroups
  \/ JoinStrings
  \/ ReturnI128
  \/ ReturnF64

Spec == Init /\ [][Next]_vars

\* the state machine and the functions agree on what a call returns
Expected ==
  IF input.kind = "i128"
  THEN danish_compound_numeral_name(input.val, overflow_checks)
  ELSE f64_danish_compound_numeral_name(input.val, overflow_checks)

StepsAgree ==
  /\ pc = "done" => out = Expected
  /\ pc = "panicked" => Panicked(Expected)
  /\ IsI128(self) /\ IsI128(number) /\ IsI128(n)

-----------------------------------------------------------------------------
(* Vocabulary of the properties *)

IntInput == input.kind = "i128"
FloatInput == input.kind = "f64"

\* the integer input whose groups, least-significant first, are g
IsGroups(g) == IntInput /\ input.val = [neg |-> FALSE, mag |-> GroupsValue(g)]

\* 1000^k + 1, for k in 1..12
PowPlusOne ==
  [k \in 1..12 |->
     [neg |-> FALSE,
      mag |-> GroupsValue([j \in 1..(k + 1) |-> IF j = 1 \/ j = k + 1 THEN 1 ELSE 0])]]

\* the for loop has run: `strings` holds one fragment per named group
Assembled == pc \in {"join", "returned", "done"} /\ digits_by_thousands # <<>>

\* the indices (0-based) of the groups that are not zero
NonZero == {i \in 0..(Len(digits_by_thousands) - 1) : digits_by_thousands[i + 1] # 0}

Group(i) == digits_by_thousands[i + 1]

\* the fragment pushed for the non-zero group i
Fragment(i) == strings[Cardinality({j \in NonZero : j <= i})]

StartsWith(s, prefix) == Len(s) >= Len(prefix) /\ SubSeq(s, 1, Len(prefix)) = prefix

EndsWith(s, suffix) ==
  Len(s) >= Len(suffix) /\ SubSeq(s, Len(s) - Len(suffix) + 1, Len(s)) = suffix

Count(s, w) == Cardinality({k \in 1..Len(s) : s[k] = w})

\* the conjunction as a word of its own, not inside a compound like "enogtyve"
StandaloneAnds(s) ==
  {k \in 1..Len(s) : /\ s[k] = AND
                     /\ (k = 1 \/ s[k - 1] = " ")
                     /\ (k = Len(s) \/ s[k + 1] = " ")}

CleanSpaces(s) ==
  /\ s # <<>> => s[1] # " " /\ s[Len(s)] # " "
  /\ \A k \in 1..(Len(s) - 1) : ~(s[k] = " " /\ s[k + 1] = " ")

\* the magnitude words
Ladder == {NUMBER_NAMES[4][k] : k \in 1..Len(NUMBER_NAMES[4])}

-----------------------------------------------------------------------------
(* C1 *)

\* C1 as claimed: name(1000) is the emphasized "one", a space and the
\* thousand word.
C1_Original ==
  (pc = "done" /\ IsGroups(<<0, 1>>)) => out = <<EMPH_ONE, " ", "tusind">>

\* C1, amended: name(1000) is the neuter "one", a space and the thousand
\* word, with no leading conjunction word.
C1_Amended ==
  (pc = "done" /\ IsGroups(<<0, 1>>)) => out = <<NEUTER_ONE, " ", "tusind">>

C1_Witness == pc = "done" /\ IsGroups(<<0, 1>>) /\ Len(out) = 3

-----------------------------------------------------------------------------
(* C2 *)

\* C2: for every i128 n, minimum and maximum included, name(n) returns a
\* string without panicking, and the sign negation does not overflow.
C2_NoPanic ==
  IntInput => /\ pc # "panicked"
              /\ ~(pc = "done" /\ MulMinusOne(self, TRUE).panic)

-----------------------------------------------------------------------------
(* C3 *)

\* C3: for every integer n > 0, name(-n) is the minus word, one space, then
\* name(n); the minus word occurs once, at the very start, and in no
\* per-group fragment.
C3_Minus ==
  (IntInput /\ input.val.neg /\ input.val # I128_MIN) =>
    /\ pc # "panicked"
    /\ \A k \in 1..Len(strings) : Count(strings[k], MINUS) = 0
    /\ pc = "done" =>
         /\ out = <<MINUS, " ">>
                  \o danish_compound_numeral_name(
                       [neg |-> FALSE, mag |-> input.val.mag], overflow_checks)
         /\ Count(out, MINUS) = 1
         /\ out[1] = MINUS

C3_Witness ==
  /\ pc = "done"
  /\ IntInput
  /\ input.val = [neg |-> TRUE, mag |-> GroupsValue(<<21, 0, 2>>)]
  /\ out[1] = MINUS

-----------------------------------------------------------------------------
(* C4 *)

\* C4: for every k in 1..12, name(1000^k + 1) has exactly one standalone
\* conjunction word, between the magnitude word of group k and the final
\* "one"; the zero groups in between emit no fragment and no magnitude word:
\* there are as many fragments as non-zero groups, no leading, trailing or
\* doubled space.
C4_Gap ==
  \A k \in 1..12 :
    (IntInput /\ input.val = PowPlusOne[k]) =>
      /\ pc # "panicked"
      /\ Assembled => Len(strings) = 2
      /\ pc = "done" =>
           /\ Cardinality(StandaloneAnds(out)) = 1
           /\ Count(out, AND) = 1
           /\ EndsWith(out, <<NUMBER_NAMES[4][k], " ", AND, " ", EMPH_ONE>>)
           /\ \A w \in Ladder : Count(out, w) = (IF w = NUMBER_NAMES[4][k] THEN 1 ELSE 0)
           /\ Count(out, " ") = 3
           /\ CleanSpaces(out)

C4_Witness ==
  /\ pc = "done"
  /\ IntInput /\ input.val = PowPlusOne[12]
  /\ Cardinality(StandaloneAnds(out)) = 1

-----------------------------------------------------------------------------
(* C5 *)

\* C5: for n >= 1000, the magnitude word of a non-zero group at index i
\* carries the plural suffix if and only if i > 1 and the group is not 1;
\* the thousand word is never pluralized.
C5_Plural ==
  Assembled =>
    \A i \in NonZero :
      i > 0 =>
        LET word == NUMBER_NAMES[4][i] IN
        /\ EndsWith(Fragment(i), <<word, PLURAL_SUFFIX>>) <=> (i > 1 /\ Group(i) # 1)
        /\ EndsWith(Fragment(i), <<word>>) <=> ~(i > 1 /\ Group(i) # 1)
        /\ i = 1 => Count(Fragment(i), PLURAL_SUFFIX) = 0

C5_Witness ==
  /\ pc = "done"
  /\ IsGroups(<<0, 0, 2>>)
  /\ out = <<"to", " ", "million", PLURAL_SUFFIX>>

-----------------------------------------------------------------------------
(* C6 *)

\* the raw unit names of the digits, joined by comma-space
RawDigits(frac) ==
  Join([k \in 1..Len(frac) |-> <<NUMBER_NAMES[1][frac[k] + 1]>>], <<",", " ">>)

\* floor(x) of the float [neg, int, frac]
FloorOf(x) ==
  IF x.frac = <<>> \/ ~x.neg
  THEN [neg |-> x.neg /\ x.int # 0, mag |-> FromSmall(x.int).mag]
  ELSE [neg |-> TRUE, mag |-> <<x.int + 1>>]

\* C6: for a float x with fractional digits d1..dm, name(x) is
\* name(floor(x)), a space, the decimal-separator word, a space and the raw
\* unit names of d1..dm joined by comma-space; without a fractional part it
\* is name(floor(x)).
C6_Fraction ==
  FloatInput =>
    /\ pc # "panicked"
    /\ pc = "done" =>
         LET whole == danish_compound_numeral_name(FloorOf(input.val), overflow_checks)
             frac == input.val.frac
         IN out = IF frac = <<>> THEN whole
                  ELSE whole \o <<" ", DECIMAL_SEPERATOR, " ">> \o RawDigits(frac)

C6_Witness ==
  /\ pc = "done"
  /\ FloatInput
  /\ input.val = [neg |-> FALSE, int |-> 3, frac |-> <<1, 4>>]
  /\ out = <<"tre", " ", "komma", " ", "en", ",", " ", "fire">>

-----------------------------------------------------------------------------
(* C7 *)

\* C7: for every positive float x with a fractional part, name(-x) is the
\* minus word, one space, then name(x).
C7_FloatSign ==
  (pc = "done" /\ FloatInput /\ input.val.neg /\ input.val.frac # <<>>) =>
    out = <<MINUS, " ">>
          \o f64_danish_compound_numeral_name(
               [input.val EXCEPT !.neg = FALSE], overflow_checks)

-----------------------------------------------------------------------------
(* C8 *)

\* C8: for n >= 1000, the fragment of the ones-group is prefixed with the
\* conjunction word and a space if and only if the group is non-zero and it
\* is below 100 or the thousands-group is zero; on a group of exactly 1 the
\* fragment is then the emphasized "one". No group of index > 0 gets the
\* prefix, and name(n) never begins with the conjunction word.
C8_LeadingAnd ==
  Assembled =>
    /\ \A i \in NonZero :
         LET fires == i = 0 /\ (Group(0) < 100 \/ Group(1) = 0)
             name == Below1000(FromSmall(Group(i)))
         IN /\ StartsWith(Fragment(i), <<AND, " ">>) <=> fires
            /\ fires => Fragment(i) = <<AND, " ">>
                          \o (IF Group(i) = 1 THEN <<EMPH_ONE>> ELSE name)
            /\ (i = 0 /\ ~fires) => Fragment(i) = name
    /\ Len(digits_by_thousands) >= 2
    /\ pc = "done" /\ IntInput => out[1] # AND /\ ~StartsWith(out, <<MINUS, " ", AND>>)

C8_Witness ==
  /\ pc = "done"
  /\ IsGroups(<<1, 0, 2>>)
  /\ strings[1] = <<AND, " ", EMPH_ONE>>

-----------------------------------------------------------------------------
(* C9 *)

\* C9: for n >= 1000, a group of exactly 1 is worded with the neuter "one" as
\* the thousands-group and with the plain units-table "one" as any higher
\* group; any other group of index > 1 keeps the wording the digit-group
\* renderer gave it.
C9_Gender ==
  Assembled =>
    \A i \in NonZero :
      /\ (i = 1 /\ Group(i) = 1) => Fragment(i) = <<NEUTER_ONE, " ", "tusind">>
      /\ (i > 1 /\ Group(i) = 1) => Fragment(i) = <<"en", " ", NUMBER_NAMES[4][i]>>
      /\ (i > 0 /\ Group(i) # 1) =>
           StartsWith(Fragment(i), Below1000(FromSmall(Group(i))) \o <<" ">>)

C9_Witness ==
  /\ pc = "done"
  /\ IsGroups(<<0, 1, 101>>)
  /\ out = <<NEUTER_ONE, " ", HUNDRED, " ", AND, " ", EMPH_ONE, " ", "million",
             PLURAL_SUFFIX, " ", NEUTER_ONE, " ", "tusind">>

-----------------------------------------------------------------------------
(* C10 *)

\* the groups once the decomposition loop is left
C10_Groups ==
  (pc \in {"join", "returned", "done"} /\ ~LessThan(number, 1000)) =>
    /\ \A k \in 1..Len(digits_by_thousands) : digits_by_thousands[k] \in 0..999
    /\ digits_by_thousands # <<>>
    /\ digits_by_thousands[Len(digits_by_thousands)] # 0
    /\ GroupsValue(digits_by_thousands) = number.mag
    /\ n = FromSmall(0)
    /\ \A i \in NonZero :
         /\ Group(i) \in 1..999
         /\ ~Prologue(FromSmall(Group(i)), overflow_checks).panic
         /\ LessThan(Prologue(FromSmall(Group(i)), overflow_checks).number, 1000)
    /\ CallDepth(self) = 1

\* the working value of the loop gets smaller with every iteration
C10_Step == (pc = "while" /\ pc' = "while") => MagLess(n'.mag, n.mag)

\* C10: for every magnitude m >= 1000 the decomposition loop terminates, the
\* working value strictly decreasing to 0, and leaves groups in [0, 999],
\* least-significant first, the last one non-zero, whose sum of
\* group[i] * 1000^i is m; every recursive call gets a value in [1, 999],
\* takes the below-1000 branch, and the recursion is never deeper than one.
C10_Decomposition == [](C10_Groups) /\ [][C10_Step]_vars

C10_Witness ==
  /\ pc = "join"
  /\ self = I128_MAX
  /\ digits_by_thousands =
       <<727, 105, 884, 715, 303, 687, 731, 231, 469, 460, 183, 141, 170>>

=============================================================================
